---- MODULE Spec2Model ----
(***************************************************************************)
(* rcolors: the styled-content builder (src/src/builder.rs), the attribute *)
(* catalogue (src/src/ansi.rs), the environment query (src/src/utils.rs)   *)
(* and the macros (src/src/macros.rs).  Strings are sequences of byte      *)
(* values, so that the Display conversion of an attribute is the           *)
(* formatting the code performs.                                           *)
(***************************************************************************)
EXTENDS Integers, Sequences, FiniteSets, TLC

\* ---------------------------------------------------------------- bounds
\* Longest content sequence an append may produce.
MaxLen == 3
\* Most to_string calls counted in a row without an intervening mutation.
MaxRenders == 2
\* Width of usize in bits; any width gives a wrapped index beyond every length.
UsizeBits == 16

\* ------------------------------------------------------ attribute catalogue
\* Mutant of AnsiCode: the discriminants of FgBlack and BgBlack are exchanged.
AnsiCode_black_exchanged ==
  [ Reset |-> 0, Bold |-> 1, Faint |-> 2, Italic |-> 3, Underline |-> 4,
    BlinkSlow |-> 5, BlinkRapid |-> 6, ReverseVideo |-> 7, Concealed |-> 8,
    CrossedOut |-> 9,
    FgBlack |-> 40, FgRed |-> 31, FgGreen |-> 32, FgYellow |-> 33,
    FgBlue |-> 34, FgMagenta |-> 35, FgCyan |-> 36, FgWhite |-> 37,
    FgHiBlack |-> 90, FgHiRed |-> 91, FgHiGreen |-> 92, FgHiYellow |-> 93,
    FgHiBlue |-> 94, FgHiMagenta |-> 95, FgHiCyan |-> 96, FgHiWhite |-> 97,
    BgBlack |-> 30, BgRed |-> 41, BgGreen |-> 42, BgYellow |-> 43,
    BgBlue |-> 44, BgMagenta |-> 45, BgCyan |-> 46, BgWhite |-> 47,
    BgHiBlack |-> 100, BgHiRed |-> 101, BgHiGreen |-> 102, BgHiYellow |-> 103,
    BgHiBlue |-> 104, BgHiMagenta |-> 105, BgHiCyan |-> 106, BgHiWhite |-> 107 ]

\* enum Ansi: the variants with their discriminants.
AnsiCode ==
  [ Reset |-> 0, Bold |-> 1, Faint |-> 2, Italic |-> 3, Underline |-> 4,
    BlinkSlow |-> 5, BlinkRapid |-> 6, ReverseVideo |-> 7, Concealed |-> 8,
    CrossedOut |-> 9,
    FgBlack |-> 30, FgRed |-> 31, FgGreen |-> 32, FgYellow |-> 33,
    FgBlue |-> 34, FgMagenta |-> 35, FgCyan |-> 36, FgWhite |-> 37,
    FgHiBlack |-> 90, FgHiRed |-> 91, FgHiGreen |-> 92, FgHiYellow |-> 93,
    FgHiBlue |-> 94, FgHiMagenta |-> 95, FgHiCyan |-> 96, FgHiWhite |-> 97,
    BgBlack |-> 40, BgRed |-> 41, BgGreen |-> 42, BgYellow |-> 43,
    BgBlue |-> 44, BgMagenta |-> 45, BgCyan |-> 46, BgWhite |-> 47,
    BgHiBlack |-> 100, BgHiRed |-> 101, BgHiGreen |-> 102, BgHiYellow |-> 103,
    BgHiBlue |-> 104, BgHiMagenta |-> 105, BgHiCyan |-> 106, BgHiWhite |-> 107 ]

Ansi == DOMAIN AnsiCode

\* Mutant of FmtDecimal: the number is padded with zeros to three digits.
FmtDecimal_padded(n) ==
  << 48 + (n \div 100), 48 + ((n \div 10) % 10), 48 + (n % 10) >>

\* Decimal formatting of a non-negative integer ("{}" of an i32), as ASCII.
RECURSIVE FmtDecimal(_)
FmtDecimal(n) ==
  IF n < 10 THEN << 48 + n >>
  ELSE FmtDecimal(n \div 10) \o << 48 + (n % 10) >>

\* Mutant of AnsiDisplay: the code is cut to its last two digits.
AnsiDisplay_two_digits(a) ==
  << 27, 91 >> \o FmtDecimal(AnsiCode[a] % 100) \o << 109 >>

\* impl Display for Ansi: write!(f, "\x1b[{}m", *self as i32)
AnsiDisplay(a) == << 27, 91 >> \o FmtDecimal(AnsiCode[a]) \o << 109 >>

\* ------------------------------------------------------------------ entities
\* enum Entity { Text(String), Ansi(Ansi) }
EntityText(s) == [ tag |-> "Text", text |-> s, ansi |-> "Reset" ]
EntityAnsi(a) == [ tag |-> "Ansi", text |-> << >>, ansi |-> a ]

\* ------------------------------------------------------------------- inputs
\* "Hello, " and "world!" of the builder tests, and the empty string.
StrHello == << 72, 101, 108, 108, 111, 44, 32 >>
StrWorld == << 119, 111, 114, 108, 100, 33 >>
TextInputs == { << >>, StrHello, StrWorld }
\* Attributes passed to ansi(): codes of one and of two digits.
AnsiInputs == { "Reset", "Bold", "FgGreen" }

\* ------------------------------------------------------------- environment
\* The states of the variable NO_COLOR in the process environment: not set,
\* set to the empty string, set to a Unicode string, set to bytes that are
\* no valid Unicode.
EnvValues == { "absent", "empty", "unicode", "not_unicode" }

\* std::env::var(key).is_ok(): Err(NotPresent) when the variable is not set,
\* Err(NotUnicode) when its value is no valid Unicode, Ok(value) otherwise.
env_var_is_ok(v) == v \in { "empty", "unicode" }

\* utils::no_color()
utils_no_color(var, is_tty) == env_var_is_ok(var) \/ ~is_tty

VARIABLES
  content,          \* Builder.content: Vec<Entity>
  no_color,         \* Builder.no_color
  force_color,      \* Builder.force_color
  env_NO_COLOR,     \* the variable NO_COLOR of the environment
  stdout_tty,       \* atty::is(atty::Stream::Stdout)
  overflow_checks,  \* build profile: arithmetic overflow panics (debug) or wraps
  call,             \* the last call: its name, argument and outcome
  renders           \* to_string calls in a row since the last other call

vars == << content, no_color, force_color, env_NO_COLOR, stdout_tty,
           overflow_checks, call, renders >>

\* ------------------------------------------------------------- the builder
\* Mutant of Builder_new: the environment query is ignored.
Builder_new_ignores_query(query) ==
  [ content |-> << >>, no_color |-> FALSE, force_color |-> FALSE ]

\* Builder::new
Builder_new(query) ==
  [ content |-> << >>, no_color |-> query, force_color |-> FALSE ]

\* usize subtraction a - b: panics under overflow checks, wraps otherwise.
UsizeSub(a, b, checks) ==
  IF a >= b THEN [ panic |-> FALSE, val |-> a - b ]
  ELSE IF checks THEN [ panic |-> TRUE, val |-> 0 ]
  ELSE [ panic |-> FALSE, val |-> (a - b) % (2 ^ UsizeBits) ]

\* Vec::get(i) (0-based): Some(&v[i]) within the length, None beyond it.
VecGet(v, i) ==
  IF i < Len(v) THEN [ some |-> TRUE, val |-> v[i + 1] ]
  ELSE [ some |-> FALSE, val |-> EntityAnsi("Reset") ]

Some(e) == [ some |-> TRUE, val |-> e ]

\* Mutant of PlainLoop: the attributes are pushed as well.
RECURSIVE PlainLoop_keeps_ansi(_, _)
PlainLoop_keeps_ansi(acc, rest) ==
  IF rest = << >> THEN acc
  ELSE PlainLoop_keeps_ansi(
         IF Head(rest).tag = "Text" THEN acc \o Head(rest).text
         ELSE acc \o AnsiDisplay(Head(rest).ansi),
         Tail(rest))

\* Mutant of PlainLoop: control characters are taken out of the texts.
RECURSIVE PlainLoop_strips_controls(_, _)
PlainLoop_strips_controls(acc, rest) ==
  IF rest = << >> THEN acc
  ELSE PlainLoop_strips_controls(
         IF Head(rest).tag = "Text"
         THEN acc \o SelectSeq(Head(rest).text, LAMBDA b : b >= 32)
         ELSE acc,
         Tail(rest))

\* The first loop of to_string: Text pushed, Ansi skipped.
RECURSIVE PlainLoop(_, _)
PlainLoop(acc, rest) ==
  IF rest = << >> THEN acc
  ELSE PlainLoop(
         IF Head(rest).tag = "Text" THEN acc \o Head(rest).text ELSE acc,
         Tail(rest))

\* The second loop of to_string: Text pushed, Ansi pushed through Display.
RECURSIVE ColorLoop(_, _)
ColorLoop(acc, rest) ==
  IF rest = << >> THEN acc
  ELSE ColorLoop(
         IF Head(rest).tag = "Text" THEN acc \o Head(rest).text
         ELSE acc \o AnsiDisplay(Head(rest).ansi),
         Tail(rest))

\* The outcome of a call that returns a String or panics.
Returned(s) == [ panic |-> FALSE, str |-> s ]
Panicked == [ panic |-> TRUE, str |-> << >> ]

\* Mutant of to_string: the leading reset is pushed whatever the last entity is.
to_string_always_leads(c, nc, fc, checks) ==
  IF nc /\ ~fc THEN Returned(PlainLoop(<< >>, c))
  ELSE
    LET idx == UsizeSub(Len(c), 1, checks) IN
    IF idx.panic THEN Panicked
    ELSE Returned(ColorLoop(AnsiDisplay("Reset"), c))

\* Mutant of to_string: force_color is not consulted.
to_string_ignores_force(c, nc, fc, checks) ==
  IF nc THEN Returned(PlainLoop(<< >>, c))
  ELSE
    LET idx == UsizeSub(Len(c), 1, checks) IN
    IF idx.panic THEN Panicked
    ELSE
      LET lead == IF VecGet(c, idx.val) /= Some(EntityAnsi("Reset"))
                  THEN AnsiDisplay("Reset") ELSE << >>
      IN Returned(ColorLoop(lead, c))

\* The Display of an entity, as the second loop of to_string pushes it.
Rendered(e) == IF e.tag = "Text" THEN e.text ELSE AnsiDisplay(e.ansi)

\* Mutant of to_string: the last entity is compared by what it renders to.
to_string_compares_rendered(c, nc, fc, checks) ==
  IF nc /\ ~fc THEN Returned(PlainLoop(<< >>, c))
  ELSE
    LET idx == UsizeSub(Len(c), 1, checks) IN
    IF idx.panic THEN Panicked
    ELSE
      LET last == VecGet(c, idx.val)
          lead == IF ~last.some \/ Rendered(last.val) /= AnsiDisplay("Reset")
                  THEN AnsiDisplay("Reset") ELSE << >>
      IN Returned(ColorLoop(lead, c))

\* Mutant of to_string: the leading reset is left out once a Reset has been
\* appended and no attribute after it.
to_string_tracks_dirty(c, nc, fc, checks) ==
  IF nc /\ ~fc THEN Returned(PlainLoop(<< >>, c))
  ELSE
    LET idx == UsizeSub(Len(c), 1, checks) IN
    IF idx.panic THEN Panicked
    ELSE
      LET clean == \E i \in 1..Len(c) :
                     /\ c[i] = EntityAnsi("Reset")
                     /\ \A j \in (i + 1)..Len(c) : c[j].tag = "Text"
          lead == IF VecGet(c, idx.val).some /\ clean
                  THEN << >> ELSE AnsiDisplay("Reset")
      IN Returned(ColorLoop(lead, c))

\* Mutant of to_string: the environment is queried again at every render.
to_string_requeries(c, nc, fc, checks) ==
  IF utils_no_color(env_NO_COLOR, stdout_tty) /\ ~fc
  THEN Returned(PlainLoop(<< >>, c))
  ELSE
    LET idx == UsizeSub(Len(c), 1, checks) IN
    IF idx.panic THEN Panicked
    ELSE
      LET lead == IF VecGet(c, idx.val) /= Some(EntityAnsi("Reset"))
                  THEN AnsiDisplay("Reset") ELSE << >>
      IN Returned(ColorLoop(lead, c))

\* Builder::to_string
to_string(c, nc, fc, checks) ==
  IF nc /\ ~fc THEN Returned(PlainLoop(<< >>, c))
  ELSE
    LET idx == UsizeSub(Len(c), 1, checks) IN
    IF idx.panic THEN Panicked
    ELSE
      LET lead == IF VecGet(c, idx.val) /= Some(EntityAnsi("Reset"))
                  THEN AnsiDisplay("Reset") ELSE << >>
      IN Returned(ColorLoop(lead, c))

\* Builder::content_raw
content_raw(c) == c

\* The record of a call: what was called, with what, whether it panicked,
\* what it returned (a String, a Vec), what it wrote to stdout, and whether
\* the write to stdout failed.
Call(op, arg, panic, str, vec, written) ==
  [ op |-> op, arg |-> arg, panic |-> panic, str |-> str, vec |-> vec,
    written |-> written, io_failed |-> FALSE ]

Init ==
  /\ env_NO_COLOR \in EnvValues
  /\ stdout_tty \in BOOLEAN
  /\ overflow_checks \in BOOLEAN
  /\ LET b == Builder_new(utils_no_color(env_NO_COLOR, stdout_tty)) IN
       /\ content = b.content
       /\ no_color = b.no_color
       /\ force_color = b.force_color
  /\ call = Call("new", << >>, FALSE, << >>, << >>, << >>)
  /\ renders = 0

\* let builder = Builder::new();
new ==
  /\ LET b == Builder_new(utils_no_color(env_NO_COLOR, stdout_tty)) IN
       /\ content' = b.content
       /\ no_color' = b.no_color
       /\ force_color' = b.force_color
  /\ call' = Call("new", << >>, FALSE, << >>, << >>, << >>)
  /\ renders' = 0
  /\ UNCHANGED << env_NO_COLOR, stdout_tty, overflow_checks >>

\* Mutant of Push: the entity is inserted at the front.
Push_front(c, e) == << e >> \o c

\* Mutant of Push: a text pushed after a text is joined to it, in its place.
Push_coalesces(c, e) ==
  IF c /= << >> /\ c[Len(c)].tag = "Text" /\ e.tag = "Text"
  THEN [ c EXCEPT ![Len(c)] = EntityText(c[Len(c)].text \o e.text) ]
  ELSE Append(c, e)

\* self.content.push(e)
Push(c, e) == Append(c, e)

\* Mutant of Appended: an attribute that is appended turns force_color on.
Appended_forces_color(op, e) ==
  /\ content' = Push(content, e)
  /\ call' = Call(op, << e >>, FALSE, << >>, << >>, << >>)
  /\ renders' = 0
  /\ force_color' = (force_color \/ e.tag = "Ansi")
  /\ UNCHANGED << no_color, env_NO_COLOR, stdout_tty, overflow_checks >>

\* The effect of an append call named op that pushes entity e.
Appended(op, e) ==
  /\ content' = Push(content, e)
  /\ call' = Call(op, << e >>, FALSE, << >>, << >>, << >>)
  /\ renders' = 0
  /\ UNCHANGED << no_color, force_color, env_NO_COLOR, stdout_tty,
                  overflow_checks >>

\* An append call named op that pushes entity e, on a builder that has room.
AppendCall(op, e) == Len(content) < MaxLen /\ Appended(op, e)

\* Builder::text
text == \E s \in TextInputs : AppendCall("text", EntityText(s))

\* Builder::ansi
ansi == \E a \in AnsiInputs : AppendCall("ansi", EntityAnsi(a))

\* Builder::reset
reset == AppendCall("reset", EntityAnsi("Reset"))

\* Builder::bold
bold == AppendCall("bold", EntityAnsi("Bold"))

\* Builder::fg_green
fg_green == AppendCall("fg_green", EntityAnsi("FgGreen"))

\* Builder::force_color
force_color_on ==
  /\ force_color' = TRUE
  /\ call' = Call("force_color", << >>, FALSE, << >>, << >>, << >>)
  /\ renders' = 0
  /\ UNCHANGED << content, no_color, env_NO_COLOR, stdout_tty,
                  overflow_checks >>

\* Mutant of call_to_string: rendering drains the content sequence.
call_to_string_drains ==
  /\ renders < MaxRenders
  /\ LET r == to_string(content, no_color, force_color, overflow_checks) IN
       call' = Call("to_string", << >>, r.panic, r.str, << >>, << >>)
  /\ renders' = renders + 1
  /\ content' = << >>
  /\ UNCHANGED << no_color, force_color, env_NO_COLOR, stdout_tty,
                  overflow_checks >>

\* let s = builder.to_string();
call_to_string ==
  /\ renders < MaxRenders
  /\ LET r == to_string(content, no_color, force_color, overflow_checks) IN
       call' = Call("to_string", << >>, r.panic, r.str, << >>, << >>)
  /\ renders' = renders + 1
  /\ UNCHANGED << content, no_color, force_color, env_NO_COLOR, stdout_tty,
                  overflow_checks >>

\* print!/println! of a value already formatted to s: s and the terminator
\* reach stdout, or the macro panics ("failed printing to stdout") when the
\* write fails.
StdoutCall(op, arg, s, terminator, sink_ok) ==
  IF sink_ok
  THEN Call(op, arg, FALSE, << >>, << >>, s \o terminator)
  ELSE [ Call(op, arg, TRUE, << >>, << >>, << >>) EXCEPT !.io_failed = TRUE ]

\* Mutant of PrintCall: the terminator is not written.
PrintCall_unterminated(op, terminator, sink_ok) ==
  LET r == to_string(content, no_color, force_color, overflow_checks) IN
  IF r.panic THEN Call(op, << >>, TRUE, << >>, << >>, << >>)
  ELSE StdoutCall(op, << >>, r.str, << >>, sink_ok)

\* impl Display for Builder (write!(f, "{}", self.to_string())), then
\* print!/println! of it: a panic of to_string leaves before any write.
PrintCall(op, terminator, sink_ok) ==
  LET r == to_string(content, no_color, force_color, overflow_checks) IN
  IF r.panic THEN Call(op, << >>, TRUE, << >>, << >>, << >>)
  ELSE StdoutCall(op, << >>, r.str, terminator, sink_ok)

\* Builder::print
print ==
  /\ \E sink_ok \in BOOLEAN : call' = PrintCall("print", << >>, sink_ok)
  /\ renders' = 0
  /\ UNCHANGED << content, no_color, force_color, env_NO_COLOR, stdout_tty,
                  overflow_checks >>

\* Mutant of println: the flags are cleared once the line is written.
println_clears_flags ==
  /\ \E sink_ok \in BOOLEAN : call' = PrintCall("println", << 10 >>, sink_ok)
  /\ renders' = 0
  /\ no_color' = FALSE
  /\ force_color' = FALSE
  /\ UNCHANGED << content, env_NO_COLOR, stdout_tty, overflow_checks >>

\* Builder::println
println ==
  /\ \E sink_ok \in BOOLEAN : call' = PrintCall("println", << 10 >>, sink_ok)
  /\ renders' = 0
  /\ UNCHANGED << content, no_color, force_color, env_NO_COLOR, stdout_tty,
                  overflow_checks >>

\* let v = builder.content_raw();
call_content_raw ==
  /\ call' = Call("content_raw", << >>, FALSE, << >>, content_raw(content),
                  << >>)
  /\ renders' = 0
  /\ UNCHANGED << content, no_color, force_color, env_NO_COLOR, stdout_tty,
                  overflow_checks >>

Next ==
  \/ new
  \/ text
  \/ ansi
  \/ reset
  \/ bold
  \/ fg_green
  \/ force_color_on
  \/ call_to_string
  \/ print
  \/ println
  \/ call_content_raw

Spec == Init /\ [][Next]_vars

\* ------------------------------------------------- the changing environment
\* The process environment changes under the builder: NO_COLOR is set, unset
\* or given another value, or stdout is attached to or detached from a terminal.
set_env ==
  /\ \E v \in EnvValues, t \in BOOLEAN :
       /\ << v, t >> /= << env_NO_COLOR, stdout_tty >>
       /\ env_NO_COLOR' = v
       /\ stdout_tty' = t
  /\ call' = Call("set_env", << >>, FALSE, << >>, << >>, << >>)
  /\ renders' = 0
  /\ UNCHANGED << content, no_color, force_color, overflow_checks >>

\* A builder that is constructed, appended to and rendered while the
\* environment changes.
NextEnv ==
  \/ new
  \/ set_env
  \/ text
  \/ ansi
  \/ call_to_string

SpecEnv == Init /\ [][NextEnv]_vars

\* ------------------------------------------------------------ the catalogue
\* format!("{}", a) of an attribute a, as the tests of ansi.rs call it.
fmt ==
  /\ \E a \in Ansi :
       call' = Call("fmt", << EntityAnsi(a) >>, FALSE, AnsiDisplay(a), << >>,
                    << >>)
  /\ renders' = 0
  /\ UNCHANGED << content, no_color, force_color, env_NO_COLOR, stdout_tty,
                  overflow_checks >>

\* Every attribute of the catalogue is formatted, one after the other.
NextCatalogue == fmt

SpecCatalogue == Init /\ [][NextCatalogue]_vars

\* -------------------------------------------------------------- the macros
\* Mutant of color_sprint: the trailing reset is left out.
color_sprint_unclosed(a, s) == AnsiDisplay(a) \o s

\* Mutant of color_sprint: a reset is written first, as the builder does.
color_sprint_leads(a, s) ==
  AnsiDisplay("Reset") \o AnsiDisplay(a) \o s \o AnsiDisplay("Reset")

\* color_sprint!: format!("{}{}{}", $color, $text, Ansi::Reset)
color_sprint(a, s) == AnsiDisplay(a) \o s \o AnsiDisplay("Reset")

\* "This is red text" of the macro tests, "text" of the builder tests.
StrRedText ==
  << 84, 104, 105, 115, 32, 105, 115, 32, 114, 101, 100, 32, 116, 101, 120,
     116 >>
StrText == << 116, 101, 120, 116 >>
MacroTexts == { << >>, StrRedText, StrText }

\* let s = color_sprint!(a, text);
call_color_sprint ==
  /\ content = << >>
  /\ \E a \in Ansi, s \in MacroTexts :
       call' = Call("color_sprint", << EntityAnsi(a), EntityText(s) >>, FALSE,
                    color_sprint(a, s), << >>, << >>)
  /\ renders' = 0
  /\ UNCHANGED << content, no_color, force_color, env_NO_COLOR, stdout_tty,
                  overflow_checks >>

\* Mutant of WrapperPushes: fg_hi_red pushes FgRed, the body of fg_red.
WrapperPushes_hi_red_dimmed ==
  [ reset |-> "Reset", bold |-> "Bold", faint |-> "Faint",
    italic |-> "Italic", underline |-> "Underline",
    blink_slow |-> "BlinkSlow", blink_rapid |-> "BlinkRapid",
    reverse_video |-> "ReverseVideo", concealed |-> "Concealed",
    crossed_out |-> "CrossedOut", fg_black |-> "FgBlack", fg_red |-> "FgRed",
    fg_green |-> "FgGreen", fg_yellow |-> "FgYellow", fg_blue |-> "FgBlue",
    fg_magenta |-> "FgMagenta", fg_cyan |-> "FgCyan", fg_white |-> "FgWhite",
    fg_hi_black |-> "FgHiBlack", fg_hi_red |-> "FgRed",
    fg_hi_green |-> "FgHiGreen", fg_hi_yellow |-> "FgHiYellow",
    fg_hi_blue |-> "FgHiBlue", fg_hi_magenta |-> "FgHiMagenta",
    fg_hi_cyan |-> "FgHiCyan", fg_hi_white |-> "FgHiWhite",
    bg_black |-> "BgBlack", bg_red |-> "BgRed", bg_green |-> "BgGreen",
    bg_yellow |-> "BgYellow", bg_blue |-> "BgBlue",
    bg_magenta |-> "BgMagenta", bg_cyan |-> "BgCyan", bg_white |-> "BgWhite",
    bg_hi_black |-> "BgHiBlack", bg_hi_red |-> "BgHiRed",
    bg_hi_green |-> "BgHiGreen", bg_hi_yellow |-> "BgHiYellow",
    bg_hi_blue |-> "BgHiBlue", bg_hi_magenta |-> "BgHiMagenta",
    bg_hi_cyan |-> "BgHiCyan", bg_hi_white |-> "BgHiWhite" ]

\* The convenience wrappers of impl Builder, each with the variant its body
\* pushes: pub fn bold(&mut self) { self.content.push(Entity::Ansi(Ansi::Bold)) }
WrapperPushes ==
  [ reset |-> "Reset", bold |-> "Bold", faint |-> "Faint",
    italic |-> "Italic", underline |-> "Underline",
    blink_slow |-> "BlinkSlow", blink_rapid |-> "BlinkRapid",
    reverse_video |-> "ReverseVideo", concealed |-> "Concealed",
    crossed_out |-> "CrossedOut", fg_black |-> "FgBlack", fg_red |-> "FgRed",
    fg_green |-> "FgGreen", fg_yellow |-> "FgYellow", fg_blue |-> "FgBlue",
    fg_magenta |-> "FgMagenta", fg_cyan |-> "FgCyan", fg_white |-> "FgWhite",
    fg_hi_black |-> "FgHiBlack", fg_hi_red |-> "FgHiRed",
    fg_hi_green |-> "FgHiGreen", fg_hi_yellow |-> "FgHiYellow",
    fg_hi_blue |-> "FgHiBlue", fg_hi_magenta |-> "FgHiMagenta",
    fg_hi_cyan |-> "FgHiCyan", fg_hi_white |-> "FgHiWhite",
    bg_black |-> "BgBlack", bg_red |-> "BgRed", bg_green |-> "BgGreen",
    bg_yellow |-> "BgYellow", bg_blue |-> "BgBlue",
    bg_magenta |-> "BgMagenta", bg_cyan |-> "BgCyan", bg_white |-> "BgWhite",
    bg_hi_black |-> "BgHiBlack", bg_hi_red |-> "BgHiRed",
    bg_hi_green |-> "BgHiGreen", bg_hi_yellow |-> "BgHiYellow",
    bg_hi_blue |-> "BgHiBlue", bg_hi_magenta |-> "BgHiMagenta",
    bg_hi_cyan |-> "BgHiCyan", bg_hi_white |-> "BgHiWhite" ]

\* A convenience wrapper, called by its name.
wrapper(w) == AppendCall(w, EntityAnsi(WrapperPushes[w]))

\* Builder::ansi with the attribute drawn from S.
ansi_of(S) == \E a \in S : AppendCall("ansi", EntityAnsi(a))

\* Builder::text with the string drawn from S.
text_of(S) == \E s \in S : AppendCall("text", EntityText(s))

\* A caller chains one attribute, one text and a reset, as the tests do:
\* builder.ansi(a).text(s).ansi(Ansi::Reset), builder.bg_black().text(s).reset()
chain_ansi == content = << >> /\ ansi_of(Ansi)
chain_bg_black == content = << >> /\ wrapper("bg_black")
chain_text ==
  /\ Len(content) = 1
  /\ content[1].tag = "Ansi"
  /\ text_of(MacroTexts)
chain_ansi_reset ==
  /\ Len(content) = 2
  /\ content[2].tag = "Text"
  /\ ansi_of({ "Reset" })
chain_reset ==
  /\ Len(content) = 2
  /\ content[2].tag = "Text"
  /\ wrapper("reset")

NextChain ==
  \/ new
  \/ chain_ansi
  \/ chain_bg_black
  \/ chain_text
  \/ chain_ansi_reset
  \/ chain_reset
  \/ force_color_on
  \/ call_to_string
  \/ call_color_sprint

SpecChain == Init /\ [][NextChain]_vars


\* ------------------------------------------------------------- the wrappers
\* Most attribute entities a builder holds where every wrapper may be called.
MaxWrapped == 1

\* The attribute entities of a content sequence.
AnsiEntities(c) == SelectSeq(c, LAMBDA e : e.tag = "Ansi")

\* Any of the convenience wrappers.
wrap_any ==
  /\ Len(AnsiEntities(content)) < MaxWrapped
  /\ \E w \in DOMAIN WrapperPushes : wrapper(w)

\* Builder::ansi with any attribute of the catalogue.
ansi_any ==
  /\ Len(AnsiEntities(content)) < MaxWrapped
  /\ ansi_of(Ansi)

\* Builder::text("Hello, ") as the first call on a builder.
text_hello == content = << >> /\ text_of({ StrHello })

\* Wrappers and ansi() called on the same builders.
NextWrappers ==
  \/ new
  \/ text_hello
  \/ wrap_any
  \/ ansi_any
  \/ call_content_raw

SpecWrappers == Init /\ [][NextWrappers]_vars

\* ---------------------------------------------------- the copy of the content
\* Mutant of content_raw_shares: the caller is handed the builder's own vector.
content_raw_aliases == TRUE

\* Whether the Vec that content_raw returns shares storage with self.content:
\* it is self.content.clone(), returned by value.
content_raw_shares == FALSE

\* What a caller may make of a Vec v it owns: an entity pushed, the last one
\* removed, the first one replaced.
CopyMutations(v) ==
  { Append(v, EntityAnsi("Bold")) }
    \cup (IF v = << >> THEN { }
          ELSE { SubSeq(v, 1, Len(v) - 1),
                 [ v EXCEPT ![1] = EntityText(<< >>) ] })

\* The caller changes the Vec it got from content_raw.
mutate_copy ==
  /\ call.op = "content_raw"
  /\ \E v \in CopyMutations(call.vec) :
       /\ v /= call.vec
       /\ call' = Call("mutate_copy", << >>, FALSE, << >>, v, << >>)
       /\ content' = IF content_raw_shares THEN v ELSE content
  /\ renders' = 0
  /\ UNCHANGED << no_color, force_color, env_NO_COLOR, stdout_tty,
                  overflow_checks >>

\* A builder whose content is read with content_raw and the copy changed.
NextCopy ==
  \/ new
  \/ text
  \/ ansi
  \/ call_content_raw
  \/ mutate_copy
  \/ call_to_string

SpecCopy == Init /\ [][NextCopy]_vars

\* ------------------------------------------------------- texts taken verbatim
\* Texts that carry what a sanitizer would touch: "\x1b[0m" as a literal, and
\* the control characters "\t\0\n"; and the empty string.
StrResetLiteral == << 27, 91, 48, 109 >>
StrControl == << 9, 0, 10 >>
RawTexts == { << >>, StrResetLiteral, StrControl }

\* Builder::text with a text of RawTexts.
text_raw == text_of(RawTexts)

\* A builder that is given such texts among attributes, and rendered.
NextVerbatim ==
  \/ new
  \/ text_raw
  \/ ansi
  \/ call_to_string

SpecVerbatim == Init /\ [][NextVerbatim]_vars

\* ------------------------------------------- the example of the documentation
\* "Hello, world!" and " This is bold text!" of the examples in the doc comments.
StrHelloWorld ==
  << 72, 101, 108, 108, 111, 44, 32, 119, 111, 114, 108, 100, 33 >>
StrBoldText ==
  << 32, 84, 104, 105, 115, 32, 105, 115, 32, 98, 111, 108, 100, 32, 116,
     101, 120, 116, 33 >>

\* builder.text("Hello, world!").bold().text(" This is bold text!").reset();
doc_text_hello ==
  /\ content = << >>
  /\ Appended("text", EntityText(StrHelloWorld))
doc_bold ==
  /\ content = << EntityText(StrHelloWorld) >>
  /\ Appended("bold", EntityAnsi(WrapperPushes.bold))
doc_text_bold ==
  /\ content = << EntityText(StrHelloWorld), EntityAnsi("Bold") >>
  /\ Appended("text", EntityText(StrBoldText))
doc_reset ==
  /\ content = << EntityText(StrHelloWorld), EntityAnsi("Bold"),
                  EntityText(StrBoldText) >>
  /\ Appended("reset", EntityAnsi(WrapperPushes.reset))

\* The example is built call by call and rendered at any point.
NextDoc ==
  \/ new
  \/ doc_text_hello
  \/ doc_bold
  \/ doc_text_bold
  \/ doc_reset
  \/ call_to_string

SpecDoc == Init /\ [][NextDoc]_vars

\* ------------------------------------------------- the macros that print
\* Mutant of color_print: the attribute is left out where no_color() answers
\* that colour is disabled.
color_print_respects_no_color(a, s) ==
  IF utils_no_color(env_NO_COLOR, stdout_tty) THEN s
  ELSE AnsiDisplay(a) \o s \o AnsiDisplay("Reset")

\* color_print!: print!("{}{}{}", $color, $text, Ansi::Reset), what is printed.
color_print(a, s) == AnsiDisplay(a) \o s \o AnsiDisplay("Reset")

\* color_println!: println!("{}{}{}", $color, $text, Ansi::Reset), what is printed.
color_println(a, s) == AnsiDisplay(a) \o s \o AnsiDisplay("Reset") \o << 10 >>

\* Mutant of SprintShorthand: hi_cyan! passes FgCyan, the body of cyan!.
SprintShorthand_hi_cyan_dimmed ==
  [ black |-> "FgBlack", red |-> "FgRed", green |-> "FgGreen",
    yellow |-> "FgYellow", blue |-> "FgBlue", magenta |-> "FgMagenta",
    cyan |-> "FgCyan", white |-> "FgWhite", hi_black |-> "FgHiBlack",
    hi_red |-> "FgHiRed", hi_green |-> "FgHiGreen",
    hi_yellow |-> "FgHiYellow", hi_blue |-> "FgHiBlue",
    hi_magenta |-> "FgHiMagenta", hi_cyan |-> "FgCyan",
    hi_white |-> "FgHiWhite" ]

\* The shorthand macros that return a string, each with the attribute its body
\* passes: black! is { let s = color_sprint!(Ansi::FgBlack, $text); s }
SprintShorthand ==
  [ black |-> "FgBlack", red |-> "FgRed", green |-> "FgGreen",
    yellow |-> "FgYellow", blue |-> "FgBlue", magenta |-> "FgMagenta",
    cyan |-> "FgCyan", white |-> "FgWhite", hi_black |-> "FgHiBlack",
    hi_red |-> "FgHiRed", hi_green |-> "FgHiGreen",
    hi_yellow |-> "FgHiYellow", hi_blue |-> "FgHiBlue",
    hi_magenta |-> "FgHiMagenta", hi_cyan |-> "FgHiCyan",
    hi_white |-> "FgHiWhite" ]

\* The shorthand macros that print: print_black! is
\* color_print!(Ansi::FgBlack, $text)
PrintShorthand ==
  [ print_black |-> "FgBlack", print_red |-> "FgRed",
    print_green |-> "FgGreen", print_yellow |-> "FgYellow",
    print_blue |-> "FgBlue", print_magenta |-> "FgMagenta",
    print_cyan |-> "FgCyan", print_white |-> "FgWhite",
    print_hi_black |-> "FgHiBlack", print_hi_red |-> "FgHiRed",
    print_hi_green |-> "FgHiGreen", print_hi_yellow |-> "FgHiYellow",
    print_hi_blue |-> "FgHiBlue", print_hi_magenta |-> "FgHiMagenta",
    print_hi_cyan |-> "FgHiCyan", print_hi_white |-> "FgHiWhite" ]

\* The shorthand macros that print a line: println_black! is
\* color_println!(Ansi::FgBlack, $text)
PrintlnShorthand ==
  [ println_black |-> "FgBlack", println_red |-> "FgRed",
    println_green |-> "FgGreen", println_yellow |-> "FgYellow",
    println_blue |-> "FgBlue", println_magenta |-> "FgMagenta",
    println_cyan |-> "FgCyan", println_white |-> "FgWhite",
    println_hi_black |-> "FgHiBlack", println_hi_red |-> "FgHiRed",
    println_hi_green |-> "FgHiGreen", println_hi_yellow |-> "FgHiYellow",
    println_hi_blue |-> "FgHiBlue", println_hi_magenta |-> "FgHiMagenta",
    println_hi_cyan |-> "FgHiCyan", println_hi_white |-> "FgHiWhite" ]

\* The arguments of a macro call, as its record keeps them.
MacroArgs(a, s) == << EntityAnsi(a), EntityText(s) >>

\* color_print!(a, text); as the first statement after Builder::new(), as are
\* the macro calls below
call_color_print ==
  /\ call.op = "new"
  /\ \E a \in Ansi, s \in MacroTexts, sink_ok \in BOOLEAN :
       call' = StdoutCall("color_print", MacroArgs(a, s), color_print(a, s),
                          << >>, sink_ok)
  /\ renders' = 0
  /\ UNCHANGED << content, no_color, force_color, env_NO_COLOR, stdout_tty,
                  overflow_checks >>

\* color_println!(a, text);
call_color_println ==
  /\ call.op = "new"
  /\ \E a \in Ansi, s \in MacroTexts, sink_ok \in BOOLEAN :
       call' = StdoutCall("color_println", MacroArgs(a, s),
                          color_println(a, s), << >>, sink_ok)
  /\ renders' = 0
  /\ UNCHANGED << content, no_color, force_color, env_NO_COLOR, stdout_tty,
                  overflow_checks >>

\* let s = x!(text); for a shorthand x
call_shorthand ==
  /\ call.op = "new"
  /\ \E x \in DOMAIN SprintShorthand, s \in MacroTexts :
       call' = Call(x, << EntityText(s) >>, FALSE,
                    color_sprint(SprintShorthand[x], s), << >>, << >>)
  /\ renders' = 0
  /\ UNCHANGED << content, no_color, force_color, env_NO_COLOR, stdout_tty,
                  overflow_checks >>

\* print_x!(text); for a shorthand print_x
call_print_shorthand ==
  /\ call.op = "new"
  /\ \E x \in DOMAIN PrintShorthand, s \in MacroTexts, sink_ok \in BOOLEAN :
       call' = StdoutCall(x, << EntityText(s) >>,
                          color_print(PrintShorthand[x], s), << >>, sink_ok)
  /\ renders' = 0
  /\ UNCHANGED << content, no_color, force_color, env_NO_COLOR, stdout_tty,
                  overflow_checks >>

\* println_x!(text); for a shorthand println_x
call_println_shorthand ==
  /\ call.op = "new"
  /\ \E x \in DOMAIN PrintlnShorthand, s \in MacroTexts, sink_ok \in BOOLEAN :
       call' = StdoutCall(x, << EntityText(s) >>,
                          color_println(PrintlnShorthand[x], s), << >>, sink_ok)
  /\ renders' = 0
  /\ UNCHANGED << content, no_color, force_color, env_NO_COLOR, stdout_tty,
                  overflow_checks >>

\* let s = color_sprint!(a, text); as the first statement after Builder::new()
first_color_sprint == call.op = "new" /\ call_color_sprint

\* One macro is called where a builder has just been constructed, and the
\* builder is given the same attribute and text and rendered.
NextMacros ==
  \/ new
  \/ chain_ansi
  \/ chain_text
  \/ chain_ansi_reset
  \/ call_to_string
  \/ first_color_sprint
  \/ call_color_print
  \/ call_color_println
  \/ call_shorthand
  \/ call_print_shorthand
  \/ call_println_shorthand

SpecMacros == Init /\ [][NextMacros]_vars

\* ------------------------------------------------- appends and the two flags
\* Builder::ansi with an attribute of AnsiInputs, beside the wrappers.
ansi_some ==
  /\ Len(AnsiEntities(content)) < MaxWrapped
  /\ ansi_of(AnsiInputs)

\* Every append operation is called on builders with force_color set or not.
NextFlags ==
  \/ new
  \/ force_color_on
  \/ text_hello
  \/ wrap_any
  \/ ansi_some

SpecFlags == Init /\ [][NextFlags]_vars

\* ------------------------------------------------------------------ claims
\* What the claims speak of, stated apart from the loops of to_string.
ColorEnabled == force_color \/ ~no_color

\* The contents of the Text entities among the first n entities, in order.
RECURSIVE ConcatTexts(_, _)
ConcatTexts(c, n) ==
  IF n = 0 THEN << >>
  ELSE ConcatTexts(c, n - 1) \o (IF c[n].tag = "Text" THEN c[n].text ELSE << >>)

\* The first n entities, each Text as its content, each attribute as its escape.
RECURSIVE ConcatAll(_, _)
ConcatAll(c, n) ==
  IF n = 0 THEN << >>
  ELSE ConcatAll(c, n - 1)
         \o (IF c[n].tag = "Text" THEN c[n].text ELSE AnsiDisplay(c[n].ansi))

\* "\x1b[0m"
ResetEscape == << 27, 91, 48, 109 >>

\* The last appended entity is Attribute(Reset).
EndsInReset ==
  /\ content /= << >>
  /\ content[Len(content)] = EntityAnsi("Reset")

\* s holds the introducer ESC '[' of an escape sequence.
HasEscape(s) == \E i \in 1..(Len(s) - 1) : s[i] = 27 /\ s[i + 1] = 91

AppendOps == { "text", "ansi", "reset", "bold", "fg_green" }
ReadOps == { "to_string", "print", "println", "content_raw" }

\* C1: with no_color true and force_color false, to_string returns exactly the
\* concatenation of the Text contents in appended order; attributes add nothing.
C1_PlainIsTextsOnly ==
  (call.op = "to_string" /\ no_color /\ ~force_color)
    => (~call.panic /\ call.str = ConcatTexts(content, Len(content)))

\* C1 witness: text("Hello, ").bold().text("world!") rendered plain.
C1_Witness ==
  /\ call.op = "to_string" /\ no_color /\ ~force_color
  /\ content = << EntityText(StrHello), EntityAnsi("Bold"), EntityText(StrWorld) >>
  /\ call.str = StrHello \o StrWorld

\* C2: a colour-enabled render of a non-empty sequence is one "\x1b[0m" followed
\* by the builder's own content when the last entity is not Reset, and the
\* builder's own content alone when it is.
C2_LeadingReset ==
  (call.op = "to_string" /\ ColorEnabled /\ content /= << >>)
    => /\ ~call.panic
       /\ call.str = (IF EndsInReset THEN << >> ELSE ResetEscape)
                       \o ConcatAll(content, Len(content))

\* C2 witness: fg_green().text(..) renders "\x1b[0m\x1b[32m" and the text.
C2_Witness ==
  /\ call.op = "to_string" /\ ColorEnabled
  /\ content = << EntityAnsi("FgGreen"), EntityText(StrWorld) >>
  /\ call.str = << 27, 91, 48, 109, 27, 91, 51, 50, 109 >> \o StrWorld

\* C3: a colour-enabled render of a builder with zero entities returns "".
C3_EmptyRendersEmpty ==
  (call.op = "to_string" /\ ColorEnabled /\ content = << >>)
    => (~call.panic /\ call.str = << >>)

\* C4: to_string never fails: it always returns a string.
C4_ToStringTotal == (call.op = "to_string") => ~call.panic

\* C5: every colour-enabled render is the optional leading reset followed by
\* the in-order concatenation of texts and separate attribute escapes, with
\* nothing appended.
C5_ColorRender ==
  (call.op = "to_string" /\ ColorEnabled)
    => /\ ~call.panic
       /\ call.str = (IF content = << >> \/ EndsInReset THEN << >> ELSE ResetEscape)
                       \o ConcatAll(content, Len(content))

\* C6: the plain path is taken exactly when no_color is true and force_color
\* is false; in the three other flag combinations escape sequences are emitted.
C6_PathByFlags ==
  (call.op = "to_string" /\ content /= << >>)
    => /\ ~call.panic
       /\ (no_color /\ ~force_color)
            => call.str = ConcatTexts(content, Len(content))
       /\ ~(no_color /\ ~force_color)
            => /\ HasEscape(call.str)
               /\ Len(call.str) > Len(ConcatTexts(content, Len(content)))

\* C6 witness: force_color wins over no_color.
C6_Witness ==
  /\ call.op = "to_string" /\ no_color /\ force_color
  /\ content = << EntityText(StrHello) >>
  /\ call.str = ResetEscape \o StrHello

C8_ReadsKeepBuilder ==
  [][ (call'.op \in ReadOps)
        => (content' = content /\ no_color' = no_color
            /\ force_color' = force_color) ]_vars

\* C8 witness: println has written a forced-colour builder of two entities.
C8_Witness ==
  /\ call.op = "println" /\ ~call.panic
  /\ force_color /\ no_color /\ Len(content) >= 2

\* C9: each append grows the sequence by exactly the entity of that call, at
\* the end, and content_raw returns the sequence in that order.
C9_AppendOrder ==
  [][ /\ (call'.op \in AppendOps)
          => (Len(call'.arg) = 1 /\ content' = content \o call'.arg)
      /\ (call'.op = "content_raw") => (call'.vec = content) ]_vars

\* C9 witness: bold().text("Hello, ").reset() read back in call order.
C9_Witness ==
  /\ call.op = "content_raw"
  /\ call.vec = << EntityAnsi("Bold"), EntityText(StrHello), EntityAnsi("Reset") >>

\* C10: a new builder has an empty sequence, force_color false and no_color
\* equal to what utils::no_color() returns.
C10_NewBuilder ==
  (call.op = "new")
    => /\ content = << >>
       /\ force_color = FALSE
       /\ no_color = utils_no_color(env_NO_COLOR, stdout_tty)

\* C10 witness: constructed where the query answers true.
C10_Witness ==
  /\ call.op = "new" /\ no_color /\ env_NO_COLOR = "absent" /\ ~stdout_tty

\* C19: no_color() returns true if NO_COLOR is present in the environment with
\* any value at all, or if stdout is no terminal, and false only when the
\* variable is absent and stdout is a terminal (read off the builder that
\* Builder::new has just filled from the query).
C19_QueryTruthTable ==
  (call.op = "new")
    => (no_color <=> (env_NO_COLOR /= "absent" \/ ~stdout_tty))

\* C20: the query's answer is read at construction only: no later step of the
\* builder changes no_color, whatever the environment has become, and every
\* later render follows the value read at construction.
C20_QueryCached ==
  [][ /\ (call'.op /= "new") => (no_color' = no_color)
      /\ (call'.op = "to_string" /\ ~force_color /\ content /= << >>)
           => /\ ~call'.panic
              /\ call'.str =
                   IF no_color THEN ConcatTexts(content, Len(content))
                   ELSE (IF EndsInReset THEN << >> ELSE ResetEscape)
                          \o ConcatAll(content, Len(content)) ]_vars

\* C20 witness: a builder constructed with colour disabled renders plain after
\* the environment has turned to allow colour.
C20_Witness ==
  /\ call.op = "to_string" /\ no_color /\ ~force_color
  /\ ~utils_no_color(env_NO_COLOR, stdout_tty)
  /\ content = << EntityAnsi("Bold"), EntityText(StrHello) >>
  /\ call.str = StrHello

\* The attribute the last fmt call formatted.
Formatted == call.arg[1].ansi

\* C14: two distinct variants have distinct codes and distinct escape strings
\* (every pair of variants is formatted in two calls that follow each other).
C14_Injective ==
  [][ (call.op = "fmt" /\ call'.op = "fmt" /\ call'.arg /= call.arg)
        => /\ AnsiCode[call'.arg[1].ansi] /= AnsiCode[call.arg[1].ansi]
           /\ call'.str /= call.str ]_vars

\* C14 witness: BgHiWhite has been formatted, as "\x1b[107m".
C14_Witness ==
  /\ call.op = "fmt" /\ Formatted = "BgHiWhite"
  /\ call.str = << 27, 91, 49, 48, 55, 109 >>

\* The digits of s between the leading ESC '[' and the final byte.
Parameter(s) == SubSeq(s, 3, Len(s) - 1)

\* The number a sequence of ASCII digits denotes.
RECURSIVE DecimalValue(_)
DecimalValue(d) ==
  IF d = << >> THEN 0
  ELSE 10 * DecimalValue(SubSeq(d, 1, Len(d) - 1)) + (d[Len(d)] - 48)

\* C15: the Display of a variant is 0x1B, '[', the decimal digits of its code
\* without leading zeros, 'm', and nothing else.
C15_EscapeFormat ==
  (call.op = "fmt")
    => LET s == call.str
           d == Parameter(call.str)
       IN /\ Len(s) >= 4
          /\ s[1] = 27 /\ s[2] = 91 /\ s[Len(s)] = 109
          /\ \A i \in 1..Len(d) : d[i] \in 48..57
          /\ (Len(d) > 1) => (d[1] /= 48)
          /\ DecimalValue(d) = AnsiCode[Formatted]

\* C15 witness: FgHiRed has been formatted, as "\x1b[91m".
C15_Witness ==
  /\ call.op = "fmt" /\ Formatted = "FgHiRed"
  /\ call.str = << 27, 91, 57, 49, 109 >>

\* The families of the catalogue, by the names of the variants.
StyleVariants ==
  { "Reset", "Bold", "Faint", "Italic", "Underline", "BlinkSlow", "BlinkRapid",
    "ReverseVideo", "Concealed", "CrossedOut" }
FgNormalVariants ==
  { "FgBlack", "FgRed", "FgGreen", "FgYellow", "FgBlue", "FgMagenta", "FgCyan",
    "FgWhite" }
FgHiVariants ==
  { "FgHiBlack", "FgHiRed", "FgHiGreen", "FgHiYellow", "FgHiBlue",
    "FgHiMagenta", "FgHiCyan", "FgHiWhite" }
BgNormalVariants ==
  { "BgBlack", "BgRed", "BgGreen", "BgYellow", "BgBlue", "BgMagenta", "BgCyan",
    "BgWhite" }
BgHiVariants ==
  { "BgHiBlack", "BgHiRed", "BgHiGreen", "BgHiYellow", "BgHiBlue",
    "BgHiMagenta", "BgHiCyan", "BgHiWhite" }

\* The codes of a set of variants.
CodesOf(V) == { AnsiCode[v] : v \in V }

\* C16: the code of every variant lies in the range of its family: 0..9 for
\* the 10 styles, 30..37 and 90..97 for the 16 foregrounds, 40..47 and
\* 100..107 for the 16 backgrounds, one variant per colour, intensity and
\* channel, 32 colour variants in all.
C16_FamilyRanges ==
  (call.op = "fmt")
    => /\ Formatted \in StyleVariants => AnsiCode[Formatted] \in 0..9
       /\ Formatted \in FgNormalVariants => AnsiCode[Formatted] \in 30..37
       /\ Formatted \in FgHiVariants => AnsiCode[Formatted] \in 90..97
       /\ Formatted \in BgNormalVariants => AnsiCode[Formatted] \in 40..47
       /\ Formatted \in BgHiVariants => AnsiCode[Formatted] \in 100..107
       /\ Ansi = StyleVariants \cup FgNormalVariants \cup FgHiVariants
                   \cup BgNormalVariants \cup BgHiVariants
       /\ CodesOf(StyleVariants) = 0..9
       /\ CodesOf(FgNormalVariants) = 30..37
       /\ CodesOf(FgHiVariants) = 90..97
       /\ CodesOf(BgNormalVariants) = 40..47
       /\ CodesOf(BgHiVariants) = 100..107
       /\ Cardinality(Ansi \ StyleVariants) = 32

\* C16 witness: BgBlack, a normal background, has been formatted with code 40.
C16_Witness ==
  /\ call.op = "fmt" /\ Formatted = "BgBlack"
  /\ call.str = << 27, 91, 52, 48, 109 >>

\* "\x1b[40mtext\x1b[0m"
BgBlackTextReset ==
  << 27, 91, 52, 48, 109 >> \o StrText \o << 27, 91, 48, 109 >>

C12_SprintFormat ==
  (call.op = "color_sprint")
    => LET a == call.arg[1].ansi
           s == call.arg[2].text
           e == AnsiDisplay(call.arg[1].ansi)
           r == call.str
       IN /\ ~call.panic
          /\ Len(r) = Len(e) + Len(s) + 4
          /\ SubSeq(r, 1, Len(e)) = e
          /\ SubSeq(r, Len(e) + 1, Len(e) + Len(s)) = s
          /\ SubSeq(r, Len(e) + Len(s) + 1, Len(r)) = ResetEscape

\* C12 witness: color_sprint!(Ansi::FgRed, "This is red text").
C12_Witness ==
  /\ call.op = "color_sprint"
  /\ call.arg = << EntityAnsi("FgRed"), EntityText(StrRedText) >>
  /\ call.str = << 27, 91, 51, 49, 109 >> \o StrRedText \o << 27, 91, 48, 109 >>

\* C13: the render of a builder built as ansi(a).text(s).ansi(Reset) with
\* colour forced on is byte for byte what color_sprint!(a, s) returns.
C13_SprintIsBuilder ==
  (/\ call.op = "to_string" /\ force_color
   /\ Len(content) = 3
   /\ content[1].tag = "Ansi" /\ content[2].tag = "Text"
   /\ content[3] = EntityAnsi("Reset"))
    => /\ ~call.panic
       /\ call.str = color_sprint(content[1].ansi, content[2].text)

\* C13 witness: ansi(FgHiCyan).text("This is red text").ansi(Reset) rendered
\* with colour forced on.
C13_Witness ==
  /\ call.op = "to_string" /\ force_color /\ no_color
  /\ content = << EntityAnsi("FgHiCyan"), EntityText(StrRedText),
                  EntityAnsi("Reset") >>
  /\ ~call.panic


\* The wrappers by name and, in the same order, the variants the names denote.
WrapperNames ==
  << "reset", "bold", "faint", "italic", "underline", "blink_slow",
     "blink_rapid", "reverse_video", "concealed", "crossed_out",
     "fg_black", "fg_red", "fg_green", "fg_yellow", "fg_blue", "fg_magenta",
     "fg_cyan", "fg_white", "fg_hi_black", "fg_hi_red", "fg_hi_green",
     "fg_hi_yellow", "fg_hi_blue", "fg_hi_magenta", "fg_hi_cyan",
     "fg_hi_white", "bg_black", "bg_red", "bg_green", "bg_yellow", "bg_blue",
     "bg_magenta", "bg_cyan", "bg_white", "bg_hi_black", "bg_hi_red",
     "bg_hi_green", "bg_hi_yellow", "bg_hi_blue", "bg_hi_magenta",
     "bg_hi_cyan", "bg_hi_white" >>
DenotedVariants ==
  << "Reset", "Bold", "Faint", "Italic", "Underline", "BlinkSlow",
     "BlinkRapid", "ReverseVideo", "Concealed", "CrossedOut",
     "FgBlack", "FgRed", "FgGreen", "FgYellow", "FgBlue", "FgMagenta",
     "FgCyan", "FgWhite", "FgHiBlack", "FgHiRed", "FgHiGreen",
     "FgHiYellow", "FgHiBlue", "FgHiMagenta", "FgHiCyan",
     "FgHiWhite", "BgBlack", "BgRed", "BgGreen", "BgYellow", "BgBlue",
     "BgMagenta", "BgCyan", "BgWhite", "BgHiBlack", "BgHiRed",
     "BgHiGreen", "BgHiYellow", "BgHiBlue", "BgHiMagenta",
     "BgHiCyan", "BgHiWhite" >>

\* The variant the wrapper named w denotes.
Denoted(w) ==
  DenotedVariants[CHOOSE i \in 1..Len(WrapperNames) : WrapperNames[i] = w]

WrapperOps == { WrapperNames[i] : i \in 1..Len(WrapperNames) }

\* C17: a call of a wrapper appends the one entity Ansi(v) of the variant v its
\* name denotes and changes nothing else, which is the effect of ansi(v); the
\* wrappers are those 42 names, one for every variant of the catalogue.
C17_WrapperIsAnsi ==
  [][ /\ DOMAIN WrapperPushes = WrapperOps
      /\ { Denoted(w) : w \in WrapperOps } = Ansi
      /\ Cardinality(WrapperOps) = Cardinality(Ansi)
      /\ (call'.op \in WrapperOps)
           => /\ content' = Append(content, EntityAnsi(Denoted(call'.op)))
              /\ call'.arg = << EntityAnsi(Denoted(call'.op)) >>
              /\ no_color' = no_color
              /\ force_color' = force_color ]_vars

\* C17 witness: fg_hi_red() has been called on a builder that holds a text.
C17_Witness ==
  /\ call.op = "fg_hi_red"
  /\ content = << EntityText(StrHello), EntityAnsi("FgHiRed") >>

PrintOps == { "print", "println" }

\* C21: print writes to stdout exactly the string to_string returns for the
\* same builder state and println that string followed by one newline; neither
\* writes anything else, and no other call of the builder writes at all.
C21_PrintIsRender ==
  [][ /\ (call.op = "to_string" /\ call'.op \in PrintOps /\ ~call'.io_failed)
          => /\ call'.panic = call.panic
             /\ ~call.panic
                  => call'.written =
                       call.str \o (IF call'.op = "println" THEN << 10 >>
                                    ELSE << >>)
      /\ (call'.op \notin PrintOps) => (call'.written = << >>) ]_vars

\* C21 witness: println of bold().text("world!").reset() with colour forced on
\* has written "\x1b[1mworld!\x1b[0m\n".
C21_Witness ==
  /\ call.op = "println" /\ force_color
  /\ content = << EntityAnsi("Bold"), EntityText(StrWorld), EntityAnsi("Reset") >>
  /\ call.written = << 27, 91, 49, 109 >> \o StrWorld \o << 27, 91, 48, 109, 10 >>

\* C22: a failed write to stdout during print or println is surfaced without
\* a panic, and the content sequence and the flags are as before the call.
C22_WriteFailureSurfaced ==
  [][ (call'.op \in PrintOps /\ call'.io_failed)
        => /\ ~call'.panic
           /\ content' = content
           /\ no_color' = no_color
           /\ force_color' = force_color ]_vars

\* C23: text(s) appends the entity Text(s) for every s, the empty string and
\* strings of control characters or escape sequences included, and the render
\* that follows ends in s as it was passed, on the plain path and on the
\* coloured one.
C23_TextVerbatim ==
  [][ /\ (call'.op = "text")
          => /\ Len(call'.arg) = 1 /\ call'.arg[1].tag = "Text"
             /\ content' = Append(content, EntityText(call'.arg[1].text))
      /\ (call.op = "text" /\ call'.op = "to_string")
          => LET s == call.arg[1].text
                 n == Len(content) - 1
             IN /\ ~call'.panic
                /\ call'.str =
                     (IF no_color /\ ~force_color THEN ConcatTexts(content, n)
                      ELSE ResetEscape \o ConcatAll(content, n)) \o s ]_vars

\* C23 witness: bold().text("\t\0\n") rendered plain gives "\t\0\n".
C23_Witness ==
  /\ call.op = "to_string" /\ no_color /\ ~force_color
  /\ content = << EntityAnsi("Bold"), EntityText(StrControl) >>
  /\ call.str = << 9, 0, 10 >>

\* C23 witness on the coloured path: text("") then text("\x1b[0m").
C23_WitnessColor ==
  /\ call.op = "to_string" /\ ~no_color
  /\ content = << EntityText(<< >>), EntityText(StrResetLiteral) >>
  /\ call.str = << 27, 91, 48, 109, 27, 91, 48, 109 >>

\* C30: the last entity is compared as an entity, not by what it renders
\* to: a colour-enabled render of a sequence ending in Text("\x1b[0m") has the
\* leading "\x1b[0m", and the leading reset is absent only where the last
\* entity is Ansi(Reset).
C30_StructuralCheck ==
  (call.op = "to_string" /\ ColorEnabled /\ content /= << >>)
    => LET all == ConcatAll(content, Len(content)) IN
       /\ ~call.panic
       /\ (content[Len(content)] = EntityText(StrResetLiteral))
            => call.str = ResetEscape \o all
       /\ (call.str = all) <=> (content[Len(content)] = EntityAnsi("Reset"))
       /\ (call.str /= all) => (call.str = ResetEscape \o all)

\* C30 witness: fg_green().text("\x1b[0m") rendered with colour enabled.
C30_Witness ==
  /\ call.op = "to_string" /\ ColorEnabled
  /\ content = << EntityAnsi("FgGreen"), EntityText(StrResetLiteral) >>
  /\ call.str = << 27, 91, 48, 109, 27, 91, 51, 50, 109, 27, 91, 48, 109 >>

\* The builder of the example in the doc comment of to_string.
DocExample ==
  << EntityText(StrHelloWorld), EntityAnsi("Bold"), EntityText(StrBoldText),
     EntityAnsi("Reset") >>

\* C24: to_string returns the content without any ANSI codes: for the builder
\* text("Hello, world!").bold().text(" This is bold text!").reset() it returns
\* "Hello, world! This is bold text!".
C24_DocToString ==
  (call.op = "to_string" /\ content = DocExample)
    => /\ ~call.panic
       /\ ~HasEscape(call.str)
       /\ call.str = StrHelloWorld \o StrBoldText

\* The 16 colour names and, in the same order, the foreground attributes the
\* names denote and the names of the shorthands that print.
ColourNames ==
  << "black", "red", "green", "yellow", "blue", "magenta", "cyan", "white",
     "hi_black", "hi_red", "hi_green", "hi_yellow", "hi_blue", "hi_magenta",
     "hi_cyan", "hi_white" >>
ForegroundOf ==
  << "FgBlack", "FgRed", "FgGreen", "FgYellow", "FgBlue", "FgMagenta",
     "FgCyan", "FgWhite", "FgHiBlack", "FgHiRed", "FgHiGreen", "FgHiYellow",
     "FgHiBlue", "FgHiMagenta", "FgHiCyan", "FgHiWhite" >>
PrintNames ==
  << "print_black", "print_red", "print_green", "print_yellow", "print_blue",
     "print_magenta", "print_cyan", "print_white", "print_hi_black",
     "print_hi_red", "print_hi_green", "print_hi_yellow", "print_hi_blue",
     "print_hi_magenta", "print_hi_cyan", "print_hi_white" >>
PrintlnNames ==
  << "println_black", "println_red", "println_green", "println_yellow",
     "println_blue", "println_magenta", "println_cyan", "println_white",
     "println_hi_black", "println_hi_red", "println_hi_green",
     "println_hi_yellow", "println_hi_blue", "println_hi_magenta",
     "println_hi_cyan", "println_hi_white" >>

\* The set of the elements of a sequence, and where x stands in it.
Range(q) == { q[i] : i \in 1..Len(q) }
IndexIn(q, x) == CHOOSE i \in 1..Len(q) : q[i] = x

\* The shorthand macros, and the colour name in the name of one.
ShorthandOps == Range(ColourNames) \cup Range(PrintNames) \cup Range(PrintlnNames)
ColourOf(op) ==
  IF op \in Range(ColourNames) THEN IndexIn(ColourNames, op)
  ELSE IF op \in Range(PrintNames) THEN IndexIn(PrintNames, op)
  ELSE IndexIn(PrintlnNames, op)

\* "\x1b[<code of a>m" + s + "\x1b[0m"
Wrapped(a, s) ==
  << 27, 91 >> \o FmtDecimal(AnsiCode[a]) \o << 109 >> \o s \o ResetEscape

\* C25: for each of the 16 colour names X, X!(s) returns what
\* color_sprint!(Fg<X>, s) returns, "\x1b[<code of Fg<X>>m" + s + "\x1b[0m";
\* print_X!(s) prints that string and println_X!(s) that string and a newline.
C25_ShorthandIsGeneric ==
  /\ DOMAIN SprintShorthand = Range(ColourNames)
  /\ DOMAIN PrintShorthand = Range(PrintNames)
  /\ DOMAIN PrintlnShorthand = Range(PrintlnNames)
  /\ Cardinality(Range(ColourNames)) = 16
  /\ (call.op \in ShorthandOps /\ ~call.io_failed)
       => LET a == ForegroundOf[ColourOf(call.op)]
              s == call.arg[1].text
          IN /\ ~call.panic
             /\ color_sprint(a, s) = Wrapped(a, s)
             /\ (call.op \in Range(ColourNames))
                  => (call.str = Wrapped(a, s) /\ call.written = << >>)
             /\ (call.op \in Range(PrintNames))
                  => (call.written = Wrapped(a, s) /\ call.str = << >>)
             /\ (call.op \in Range(PrintlnNames))
                  => (call.written = Wrapped(a, s) \o << 10 >>
                      /\ call.str = << >>)

\* C25 witness: hi_cyan!("This is red text") has returned
\* "\x1b[96mThis is red text\x1b[0m".
C25_Witness ==
  /\ call.op = "hi_cyan"
  /\ call.str = << 27, 91, 57, 54, 109 >> \o StrRedText \o << 27, 91, 48, 109 >>

\* The macros, the attribute and the text of the last macro call, and what it
\* returned or printed, without the newline of the forms that print a line.
GenericOps == { "color_sprint", "color_print", "color_println" }
MacroOps == GenericOps \cup ShorthandOps
MacroAttribute ==
  IF call.op \in GenericOps THEN call.arg[1].ansi
  ELSE ForegroundOf[ColourOf(call.op)]
MacroText == call.arg[Len(call.arg)].text
MacroOutput ==
  IF call.op \in { "color_sprint" } \cup Range(ColourNames) THEN call.str
  ELSE IF call.op \in { "color_print" } \cup Range(PrintNames)
       THEN call.written
  ELSE SubSeq(call.written, 1, Len(call.written) - 1)

\* C29: what a macro returns or prints is the attribute's escape, the text and
\* the trailing reset whatever NO_COLOR and the terminal are, so also where
\* no_color() answers that colour is disabled; a builder given the same
\* attribute, text and Reset renders the text alone there.
C29_MacrosIgnoreDecision ==
  /\ (call.op \in MacroOps /\ ~call.io_failed)
       => /\ ~call.panic
          /\ MacroOutput = Wrapped(MacroAttribute, MacroText)
          /\ HasEscape(MacroOutput)
          /\ SubSeq(MacroOutput, Len(MacroOutput) - 3, Len(MacroOutput))
               = ResetEscape
  /\ (/\ call.op = "to_string"
      /\ utils_no_color(env_NO_COLOR, stdout_tty)
      /\ Len(content) = 3)
       => /\ call.str = content[2].text
          /\ call.str /= Wrapped(content[1].ansi, content[2].text)

\* C29 witness: color_println!(Ansi::FgRed, "This is red text") has printed the
\* escapes where NO_COLOR is set and stdout is no terminal.
C29_Witness ==
  /\ call.op = "color_println"
  /\ env_NO_COLOR = "unicode" /\ ~stdout_tty
  /\ call.written =
       << 27, 91, 51, 49, 109 >> \o StrRedText \o << 27, 91, 48, 109, 10 >>

\* A Reset stands in the sequence before its last entity.
HasInnerReset ==
  \E i \in 1..(Len(content) - 1) : content[i] = EntityAnsi("Reset")

\* C26: the leading reset of a colour-enabled render depends on the last
\* entity alone: a sequence that holds a Reset before a last entity that is no
\* Reset renders with the leading "\x1b[0m", as does a sequence whose trailing
\* Reset has had such an entity appended after it; a sequence that ends in
\* Reset renders without it.
C26_LastEntityOnly ==
  (call.op = "to_string" /\ ColorEnabled /\ content /= << >>)
    => LET n == Len(content)
           all == ConcatAll(content, Len(content))
       IN /\ ~call.panic
          /\ (HasInnerReset /\ ~EndsInReset) => call.str = ResetEscape \o all
          /\ (n >= 2 /\ content[n - 1] = EntityAnsi("Reset") /\ ~EndsInReset)
               => call.str = ResetEscape \o all
          /\ EndsInReset => call.str = all

\* C26 witness: reset().text("Hello, ") renders "\x1b[0m\x1b[0mHello, ".
C26_Witness ==
  /\ call.op = "to_string" /\ ColorEnabled
  /\ content = << EntityAnsi("Reset"), EntityText(StrHello) >>
  /\ call.str = ResetEscape \o ResetEscape \o StrHello

\* c is a prefix of d.
IsPrefix(c, d) == Len(c) <= Len(d) /\ SubSeq(d, 1, Len(c)) = c

\* C27: in every step of a builder's life the sequence before the step is a
\* prefix of the sequence after it: nothing is removed, replaced or reordered.
C27_AppendOnly ==
  [][ (call'.op /= "new")
        => (IsPrefix(content, content') /\ Len(content') >= Len(content)) ]_vars

\* C27 witness: a second text has been appended right after a first one.
C27_Witness ==
  /\ call.op = "text"
  /\ content = << EntityText(StrHello), EntityText(StrWorld) >>

\* C28: text, ansi and every wrapper leave no_color and force_color as they
\* were, so the render path chosen by the flags is the same after the append.
C28_AppendsKeepFlags ==
  [][ (call'.op \in { "text", "ansi" } \cup WrapperOps)
        => /\ no_color' = no_color
           /\ force_color' = force_color
           /\ (no_color' /\ ~force_color') = (no_color /\ ~force_color) ]_vars

\* C28 witness: bg_hi_white() has been called on a builder on the plain path.
C28_Witness ==
  /\ call.op = "bg_hi_white" /\ no_color /\ ~force_color
  /\ content = << EntityText(StrHello), EntityAnsi("BgHiWhite") >>

====
